---- MODULE Spec2Model ----
(***************************************************************************)
(* Trace-and-compile cache of jax.jit as the notebook                      *)
(* jit_compilation_with_jax.ipynb exercises and documents it: the          *)
(* notebook's callables (f, g, log2, loop_body) are run in trace mode      *)
(* over tracers and concrete Python values, the recorded                   *)
(* jaxpr is compiled, cached per wrapper under a signature and replayed.   *)
(***************************************************************************)
EXTENDS Integers, Sequences, FiniteSets, TLC

VARIABLES wrappers, cache, traceCount, compileCount, global_list, calls, ncalls, last

vars == <<wrappers, cache, traceCount, compileCount, global_list, calls, ncalls, last>>

(* ------------------------------ bounds -------------------------------- *)
MaxWrappers == 2
MaxCalls == 3

\* The loop counts n given to g_inner_jitted and g_inner_jitted_poorly.
LoopCounts == {0, 1, 2}

(* ------------------------- values and avals --------------------------- *)
\* An array or Python scalar: shape, dtype, weak_type, flattened data, and
\* `un`, the transcendental still to be applied elementwise ("id" = none).
PyInt(n) == [shape |-> <<>>, dtype |-> "int32", weak |-> TRUE, data |-> <<n>>, un |-> "id"]

PyFloat(n) == [shape |-> <<>>, dtype |-> "float32", weak |-> TRUE, data |-> <<n>>, un |-> "id"]

Vec3 == [shape |-> <<3>>, dtype |-> "int32", weak |-> FALSE, data |-> <<1, 2, 3>>, un |-> "id"]

Mat22 == [shape |-> <<2, 2>>, dtype |-> "float32", weak |-> FALSE, data |-> <<1, 2, 1, 2>>, un |-> "id"]

NoValue == [shape |-> <<>>, dtype |-> "none", weak |-> FALSE, data |-> <<>>, un |-> "id"]

\* ShapedArray: what a tracer knows of its value.
ShapedArray(v) == [shape |-> v.shape, dtype |-> v.dtype, weak |-> v.weak]

(* ---------------------- primitives on concrete values ----------------- *)
Elementwise(op(_, _), a, b) ==
    IF Len(a.data) >= Len(b.data)
    THEN [k \in 1..Len(a.data) |-> op(a.data[k], b.data[IF Len(b.data) = 1 THEN 1 ELSE k])]
    ELSE [k \in 1..Len(b.data) |-> op(a.data[1], b.data[k])]

\* Result type of a binary operation: a weak Python scalar takes the type of
\* the other operand.
ResultAval(a, b) ==
    IF a.shape = <<>> /\ a.weak /\ ~(b.shape = <<>> /\ b.weak) THEN b ELSE a

Plus(x, y) == x + y

Times(x, y) == x * y

AddV(a, b) ==
    LET t == ResultAval(ShapedArray(a), ShapedArray(b))
    IN  [shape |-> t.shape, dtype |-> t.dtype, weak |-> t.weak,
         data |-> Elementwise(Plus, a, b), un |-> "id"]

MulV(a, b) ==
    LET t == ResultAval(ShapedArray(a), ShapedArray(b))
    IN  [shape |-> t.shape, dtype |-> t.dtype, weak |-> t.weak,
         data |-> Elementwise(Times, a, b), un |-> "id"]

LogV(a) == [a EXCEPT !.dtype = "float32", !.un = "log"]

ConvertV(a) == [a EXCEPT !.dtype = "float32", !.weak = FALSE]

DivV(a, b) ==
    [a EXCEPT !.un = IF a.un = "log" /\ b.un = "log" /\ b.data = <<2>>
                     THEN "log2" ELSE "div"]

ApplyPrim(prim, ins) ==
    CASE prim = "add" -> AddV(ins[1], ins[2])
      [] prim = "mul" -> MulV(ins[1], ins[2])
      [] prim = "log" -> LogV(ins[1])
      [] prim = "convert_element_type" -> ConvertV(ins[1])
      [] prim = "div" -> DivV(ins[1], ins[2])

(* ----------------------------- trace mode ----------------------------- *)
\* A value seen by the callable while it is traced: a tracer (abstract,
\* names a jaxpr variable) or a concrete Python value (a jaxpr literal).
Var(i) == [k |-> "var", i |-> i, v |-> NoValue]

Lit(v) == [k |-> "lit", i |-> 0, v |-> v]

Tracer(i, aval) == [tr |-> TRUE, opnd |-> Var(i), aval |-> aval]

Concrete(v) == [tr |-> FALSE, opnd |-> Lit(v), aval |-> ShapedArray(v)]

\* Stage one equation: its output is a new tracer.
Bind(nin, eqns, prim, ins, aval) ==
    [eqns |-> Append(eqns, [prim |-> prim, ins |-> ins, aval |-> aval]),
     tv |-> Tracer(nin + Len(eqns) + 1, aval)]

\* A Python operator (+, *): computed at once on two concrete values, staged
\* when an operand is a tracer.
PyBinop(nin, eqns, prim, a, b) ==
    IF ~a.tr /\ ~b.tr
    THEN [eqns |-> eqns, tv |-> Concrete(ApplyPrim(prim, <<a.opnd.v, b.opnd.v>>))]
    ELSE Bind(nin, eqns, prim, <<a.opnd, b.opnd>>, ResultAval(a.aval, b.aval))

\* jnp.log stages an equation even on a literal (c = log 2.0).
JnpLog(nin, eqns, a) ==
    Bind(nin, eqns, "log", <<a.opnd>>, [a.aval EXCEPT !.dtype = "float32"])

\* ln_x / ln_2: a weak scalar divisor of a non-weak array is converted first.
JnpDiv(nin, eqns, a, b) ==
    IF ~a.aval.weak /\ b.aval.weak
    THEN LET c == Bind(nin, eqns, "convert_element_type", <<b.opnd>>,
                       [b.aval EXCEPT !.weak = FALSE])
         IN  Bind(nin, c.eqns, "div", <<a.opnd, c.tv.opnd>>, a.aval)
    ELSE Bind(nin, eqns, "div", <<a.opnd, b.opnd>>, a.aval)

\* Outcome of running a callable in trace mode.
Ret(eqns, tv, effects) == [err |-> FALSE, eqns |-> eqns, out |-> tv.opnd, effects |-> effects]

ConcretizationTypeError(effects) == [err |-> TRUE, eqns |-> <<>>, out |-> Lit(NoValue), effects |-> effects]

\* A Python comparison (<, >): a concrete bool on concrete operands, a staged
\* equation with a bool tracer as output otherwise.
PyCompare(nin, eqns, prim, a, b) ==
    IF ~a.tr /\ ~b.tr
    THEN [eqns |-> eqns,
          tv |-> Concrete([shape |-> <<>>, dtype |-> "bool", weak |-> FALSE,
                           data |-> <<IF (prim = "gt" /\ a.opnd.v.data[1] > b.opnd.v.data[1])
                                         \/ (prim = "lt" /\ a.opnd.v.data[1] < b.opnd.v.data[1])
                                      THEN 1 ELSE 0>>,
                           un |-> "id"])]
    ELSE Bind(nin, eqns, prim, <<a.opnd, b.opnd>>,
              [ResultAval(a.aval, b.aval) EXCEPT !.dtype = "bool"])

\* bool() of a condition, as `if` and `while` call it: a tracer has no
\* concrete value to give.
HasConcreteBool(c) == ~c.tr

Truth(c) == c.opnd.v.data[1] = 1

(* ------------------------ the notebook's callables -------------------- *)
\* f with its branches swapped.
f_swapped(tvs, nin) ==
    LET x == tvs[1]
        c == PyCompare(nin, <<>>, "gt", x, Concrete(PyInt(0)))
    IN  IF ~HasConcreteBool(c.tv) THEN ConcretizationTypeError(<<>>)
        ELSE IF ~Truth(c.tv) THEN Ret(c.eqns, x, <<>>)
        ELSE LET r == PyBinop(nin, c.eqns, "mul", Concrete(PyInt(2)), x)
             IN  Ret(r.eqns, r.tv, <<>>)

\* def f(x): if x > 0: return x / else: return 2 * x
f(tvs, nin) ==
    LET x == tvs[1]
        c == PyCompare(nin, <<>>, "gt", x, Concrete(PyInt(0)))
    IN  IF ~HasConcreteBool(c.tv) THEN ConcretizationTypeError(<<>>)
        ELSE IF Truth(c.tv) THEN Ret(c.eqns, x, <<>>)
        ELSE LET r == PyBinop(nin, c.eqns, "mul", Concrete(PyInt(2)), x)
             IN  Ret(r.eqns, r.tv, <<>>)

\* The loop leaving one iteration early.
WhileLess_stops_early(i, n) == IF i < n THEN n - 1 ELSE i

\* i = 0; while i < n: i += 1   (n concrete)
RECURSIVE WhileLess(_, _)
WhileLess(i, n) == IF i < n THEN WhileLess(i + 1, n) ELSE i

\* def g(x, n): i = 0; while i < n: i += 1; return x + i
g(tvs, nin) ==
    LET x == tvs[1]
        n == tvs[2]
        c == PyCompare(nin, <<>>, "lt", Concrete(PyInt(0)), n)
    IN  IF ~HasConcreteBool(c.tv) THEN ConcretizationTypeError(<<>>)
        ELSE LET i == WhileLess(0, n.opnd.v.data[1])
                 r == PyBinop(nin, c.eqns, "add", x, Concrete(PyInt(i)))
             IN  Ret(r.eqns, r.tv, <<>>)

\* def loop_body(prev_i): return prev_i + 1   (also unjitted_loop_body)
loop_body(tvs, nin) ==
    LET r == PyBinop(nin, <<>>, "add", tvs[1], Concrete(PyInt(1)))
    IN  Ret(r.eqns, r.tv, <<>>)

unjitted_loop_body(tvs, nin) ==
    LET r == PyBinop(nin, <<>>, "add", tvs[1], Concrete(PyInt(1)))
    IN  Ret(r.eqns, r.tv, <<>>)

\* def log2(x): global_list.append(x); return jnp.log(x) / jnp.log(2.0)
log2(tvs, nin) ==
    LET x == tvs[1]
        ln_x == JnpLog(nin, <<>>, x)
        ln_2 == JnpLog(nin, ln_x.eqns, Concrete(PyFloat(2)))
        d == JnpDiv(nin, ln_2.eqns, ln_x.tv, ln_2.tv)
    IN  Ret(d.eqns, d.tv, <<x>>)

Arity(fun) == IF fun = "g" THEN 2 ELSE 1

Call(fun, tvs, nin) ==
    CASE fun = "f" -> f(tvs, nin)
      [] fun = "g" -> g(tvs, nin)
      [] fun = "loop_body" -> loop_body(tvs, nin)
      [] fun = "unjitted_loop_body" -> unjitted_loop_body(tvs, nin)
      [] fun = "log2" -> log2(tvs, nin)

(* --------------------- jaxpr, compilation, execution ------------------ *)
OperandValue(o, env) == IF o.k = "var" THEN env[o.i] ELSE o.v

RECURSIVE EvalEqns(_, _)
EvalEqns(eqns, env) ==
    IF eqns = <<>> THEN env
    ELSE LET e == Head(eqns)
             ins == [j \in 1..Len(e.ins) |-> OperandValue(e.ins[j], env)]
         IN  EvalEqns(Tail(eqns), Append(env, ApplyPrim(e.prim, ins)))

\* The compiled artifact of one trace: the jaxpr, executable on traced arguments.
Compile(nin, t) == [nin |-> nin, eqns |-> t.eqns, out |-> t.out]

Execute(artifact, inputs) == OperandValue(artifact.out, EvalEqns(artifact.eqns, inputs))

\* The callable called without jit: every operation runs at once on concrete values.
Unwrapped(fun, args) ==
    Execute(Compile(0, Call(fun, [p \in 1..Len(args) |-> Concrete(args[p])], 0)), <<>>)

(* ------------------------------ jax.jit ------------------------------- *)
\* The whole program state, as the operations below transform it.
\*   wrappers[w]     the callable and static_argnums wrapper w was made with
\*   cache[w]        wrapper w's cache: signature -> compiled artifact
\*   traceCount[w]   times wrapper w ran its callable in trace mode
\*   compileCount[w] times a jaxpr of wrapper w was compiled
\*   global_list     the notebook's global list, appended to by log2
\*   calls[w]        history: the signatures invoked on w, with their outcome
State == [wrappers |-> wrappers, cache |-> cache, traceCount |-> traceCount,
          compileCount |-> compileCount, global_list |-> global_list, calls |-> calls]

\* jit handing a new wrapper the cache of an earlier wrapper of the same callable.
jit_shared_cache(st, fun, static_argnums) ==
    LET same == {v \in 1..Len(st.wrappers) :
                    st.wrappers[v] = [fun |-> fun, static_argnums |-> static_argnums]}
    IN  [st EXCEPT !.wrappers = Append(@, [fun |-> fun, static_argnums |-> static_argnums]),
                   !.cache = Append(@, IF same = {} THEN <<>>
                                       ELSE st.cache[CHOOSE v \in same : TRUE]),
                   !.traceCount = Append(@, 0),
                   !.compileCount = Append(@, 0),
                   !.calls = Append(@, {})]

\* jax.jit(fun, static_argnums=...): a new wrapper, with a cache of its own.
jit(st, fun, static_argnums) ==
    [st EXCEPT !.wrappers = Append(@, [fun |-> fun, static_argnums |-> static_argnums]),
               !.cache = Append(@, <<>>),
               !.traceCount = Append(@, 0),
               !.compileCount = Append(@, 0),
               !.calls = Append(@, {})]

IsStatic(wrapped, p) == (p - 1) \in wrapped.static_argnums

\* A key that leaves the static arguments' values out.
Signature_without_static_values(wrapped, args) ==
    [p \in 1..Len(args) |->
        [k |-> IF IsStatic(wrapped, p) THEN "static" ELSE "traced",
         aval |-> ShapedArray(args[p]), v |-> NoValue]]

\* A key that takes the traced arguments' values in.
Signature_with_traced_values(wrapped, args) ==
    [p \in 1..Len(args) |->
        [k |-> IF IsStatic(wrapped, p) THEN "static" ELSE "traced",
         aval |-> ShapedArray(args[p]), v |-> args[p]]]

\* The cache key of a call: shape/dtype of each traced argument, value of
\* each static one.
Signature(wrapped, args) ==
    [p \in 1..Len(args) |->
        IF IsStatic(wrapped, p)
        THEN [k |-> "static", aval |-> ShapedArray(args[p]), v |-> args[p]]
        ELSE [k |-> "traced", aval |-> ShapedArray(args[p]), v |-> NoValue]]

TracedPositions(wrapped, args) == {p \in 1..Len(args) : ~IsStatic(wrapped, p)}

\* The traced arguments, in order: the inputs of the jaxpr.
RECURSIVE TracedArgsFrom(_, _, _)
TracedArgsFrom(wrapped, args, p) ==
    IF p > Len(args) THEN <<>>
    ELSE IF IsStatic(wrapped, p) THEN TracedArgsFrom(wrapped, args, p + 1)
    ELSE <<args[p]>> \o TracedArgsFrom(wrapped, args, p + 1)

TracedArgs(wrapped, args) == TracedArgsFrom(wrapped, args, 1)

\* Tracing with the concrete value of every argument.
TraceValues_all_concrete(wrapped, args) == [p \in 1..Len(args) |-> Concrete(args[p])]

\* What the callable receives in trace mode: a tracer per traced argument,
\* the concrete value of each static one.
TraceValues(wrapped, args) ==
    [p \in 1..Len(args) |->
        IF IsStatic(wrapped, p) THEN Concrete(args[p])
        ELSE Tracer(Cardinality({q \in TracedPositions(wrapped, args) : q <= p}),
                    ShapedArray(args[p]))]

\* A lookup that never finds the artifact.
IsCached_never(c, sig) == FALSE

\* An insertion that is lost.
CacheInsert_lost(c, sig, artifact) == c

\* A slot reserved for the signature before the trace, and left behind by it.
CacheOnError_slot_left(c, sig) == (sig :> [nin |-> 0, eqns |-> <<>>, out |-> Lit(NoValue)]) @@ c

\* Whether a compiled artifact is cached under the signature.
IsCached(c, sig) == sig \in DOMAIN c

\* An insertion that evicts what the cache held.
CacheInsert_evicting(c, sig, artifact) == (sig :> artifact)

\* A failed trace remembered: an entry that answers later calls without tracing.
CacheOnError_negative_caching(c, sig) ==
    (sig :> [nin |-> 0, eqns |-> <<>>, out |-> Lit(PyInt(0))]) @@ c

\* On a cache miss with a successful trace: the compiled artifact is cached.
CacheInsert(c, sig, artifact) == (sig :> artifact) @@ c

\* On a failed trace: the exception leaves the cache as it was.
CacheOnError(c, sig) == c

\* global_list.append(x), by the trace of wrapper w.
Logged(w, effects) == [j \in 1..Len(effects) |-> [w |-> w, x |-> effects[j]]]

\* wrapped(*args): replay the cached artifact on a hit; trace, compile,
\* cache and execute on a miss.
Invoke(st, w, args) ==
    LET wrapped == st.wrappers[w]
        sig == Signature(wrapped, args)
        inputs == TracedArgs(wrapped, args)
        nin == Len(inputs)
    IN  IF IsCached(st.cache[w], sig)
        THEN [st |-> [st EXCEPT !.calls[w] = @ \cup {[sig |-> sig, outcome |-> "ok"]}],
              outcome |-> "ok",
              result |-> Execute(st.cache[w][sig], inputs),
              traced |-> FALSE]
        ELSE LET t == Call(wrapped.fun, TraceValues(wrapped, args), nin)
                 st1 == [st EXCEPT !.traceCount[w] = @ + 1,
                                   !.global_list = @ \o Logged(w, t.effects)]
             IN  IF t.err
                 THEN [st |-> [st1 EXCEPT !.cache[w] = CacheOnError(@, sig),
                                          !.calls[w] = @ \cup {[sig |-> sig,
                                                                outcome |-> "ConcretizationTypeError"]}],
                       outcome |-> "ConcretizationTypeError",
                       result |-> NoValue,
                       traced |-> TRUE]
                 ELSE LET artifact == Compile(nin, t)
                      IN  [st |-> [st1 EXCEPT !.compileCount[w] = @ + 1,
                                              !.cache[w] = CacheInsert(@, sig, artifact),
                                              !.calls[w] = @ \cup {[sig |-> sig, outcome |-> "ok"]}],
                           outcome |-> "ok",
                           result |-> Execute(artifact, inputs),
                           traced |-> TRUE]

(* ------------------- the notebook's loops over loop_body -------------- *)
\* loop_body is wrapped once, where it is defined (@jax.jit): wrapper 1.
LoopBodyWrapper == 1

\* i = 0; while i < n: i = loop_body(i)
RECURSIVE InnerJittedLoop(_, _, _)
InnerJittedLoop(st, i, n) ==
    IF i.data[1] < n
    THEN LET r == Invoke(st, LoopBodyWrapper, <<i>>)
         IN  InnerJittedLoop(r.st, r.result, n)
    ELSE [st |-> st, i |-> i]

\* i = 0; while i < n: i = jax.jit(unjitted_loop_body)(i)
RECURSIVE InnerJittedPoorlyLoop(_, _, _)
InnerJittedPoorlyLoop(st, i, n) ==
    IF i.data[1] < n
    THEN LET st1 == jit(st, "unjitted_loop_body", {})
             r == Invoke(st1, Len(st1.wrappers), <<i>>)
         IN  InnerJittedPoorlyLoop(r.st, r.result, n)
    ELSE [st |-> st, i |-> i]

(* ------------------------------ the program --------------------------- *)
NoCall == [op |-> "none", w |-> 0, args |-> <<>>, outcome |-> "ok",
           result |-> NoValue, traced |-> FALSE]

Init ==
    /\ wrappers = <<[fun |-> "loop_body", static_argnums |-> {}]>>
    /\ cache = << <<>> >>
    /\ traceCount = <<0>>
    /\ compileCount = <<0>>
    /\ calls = <<{}>>
    /\ global_list = <<>>
    /\ ncalls = 0
    /\ last = NoCall

Becomes(st) ==
    /\ wrappers' = st.wrappers
    /\ cache' = st.cache
    /\ traceCount' = st.traceCount
    /\ compileCount' = st.compileCount
    /\ global_list' = st.global_list
    /\ calls' = st.calls

\* The wraps: jax.jit as the notebook applies it (f_jit, g_jit,
\* f_jit_correct, g_jit_correct), and log2 under jit; loop_body is wrapped
\* from the start, unjitted_loop_body inside g_inner_jitted_poorly.
Wraps ==
    {<<"f", {}>>, <<"g", {}>>, <<"f", {0}>>, <<"g", {1}>>,
     <<"log2", {}>>}

\* The values each parameter is given.
ArgChoices(fun, p) ==
    CASE fun = "g" /\ p = 2 -> {PyInt(-5), PyInt(20)}
      [] fun = "log2" -> {PyFloat(3), PyFloat(8), Mat22}
      [] fun = "g" /\ p = 1 -> {PyInt(-5), PyInt(10)}
      [] fun = "f" -> {PyInt(-5), PyInt(10), Vec3}
      [] OTHER -> {PyInt(0), PyFloat(3), Vec3}

\* A static argument must be hashable: a Python scalar, not an array.
ValidArg(wrapped, p, v) == IsStatic(wrapped, p) => v.shape = <<>>

ArgsFor(wrapped) ==
    {args \in [1..Arity(wrapped.fun) -> UNION {ArgChoices(wrapped.fun, p) : p \in 1..Arity(wrapped.fun)}] :
        \A p \in 1..Arity(wrapped.fun) :
            args[p] \in ArgChoices(wrapped.fun, p) /\ ValidArg(wrapped, p, args[p])}

\* some_jit = jax.jit(fun, static_argnums=...)
Wrap(fun, static_argnums) ==
    /\ Len(wrappers) < MaxWrappers
    /\ Becomes(jit(State, fun, static_argnums))
    /\ last' = [NoCall EXCEPT !.op = "wrap", !.w = Len(wrappers) + 1]
    /\ UNCHANGED ncalls

\* some_jit(*args)
Call_(w, args) ==
    /\ ncalls < MaxCalls
    /\ LET r == Invoke(State, w, args)
       IN  /\ Becomes(r.st)
           /\ last' = [op |-> "invoke", w |-> w, args |-> args, outcome |-> r.outcome,
                       result |-> r.result, traced |-> r.traced]
    /\ ncalls' = ncalls + 1

\* g_inner_jitted(x, n)
g_inner_jitted(x, n) ==
    /\ ncalls < MaxCalls
    /\ LET r == InnerJittedLoop(State, PyInt(0), n)
       IN  /\ Becomes(r.st)
           /\ last' = [op |-> "g_inner_jitted", w |-> LoopBodyWrapper,
                       args |-> <<PyInt(x), PyInt(n)>>, outcome |-> "ok",
                       result |-> AddV(PyInt(x), r.i),
                       traced |-> r.st.traceCount # traceCount]
    /\ ncalls' = ncalls + 1

\* g_inner_jitted_poorly(x, n)
g_inner_jitted_poorly(x, n) ==
    /\ ncalls < MaxCalls
    /\ LET r == InnerJittedPoorlyLoop(State, PyInt(0), n)
       IN  /\ Becomes(r.st)
           /\ last' = [op |-> "g_inner_jitted_poorly", w |-> Len(r.st.wrappers),
                       args |-> <<PyInt(x), PyInt(n)>>, outcome |-> "ok",
                       result |-> AddV(PyInt(x), r.i),
                       traced |-> r.st.traceCount # traceCount]
    /\ ncalls' = ncalls + 1

Next ==
    \/ \E wr \in Wraps : Wrap(wr[1], wr[2])
    \/ \E w \in 1..Len(wrappers) : \E args \in ArgsFor(wrappers[w]) : Call_(w, args)
    \/ \E n \in LoopCounts : g_inner_jitted(10, n)
    \/ \E n \in LoopCounts : g_inner_jitted_poorly(10, n)

Spec == Init /\ [][Next]_vars

(* ------------------------- what the claims read ----------------------- *)
\* A step that is one call of a wrapper, and the call it is.
InvokeStep == last'.op = "invoke" /\ ncalls' = ncalls + 1

SigsOf(c) == {r.sig : r \in c}

OkSigsOf(c) == {r.sig : r \in {q \in c : q.outcome = "ok"}}

\* Two argument tuples that agree on what the claims call the signature: the
\* shape/dtype of every traced argument and the value of every static one.
SameKey(wrapped, a1, a2) ==
    \A p \in 1..Len(a1) :
        IF IsStatic(wrapped, p) THEN a1[p] = a2[p]
        ELSE ShapedArray(a1[p]) = ShapedArray(a2[p])

RECURSIVE Total(_)
Total(counts) == IF counts = <<>> THEN 0 ELSE Head(counts) + Total(Tail(counts))

\* Number of entries of global_list appended by traces of wrapper w.
LoggedBy(w) == Cardinality({j \in 1..Len(global_list) : global_list[j].w = w})

(* -------------------------------- C1 ---------------------------------- *)
\* C1, as stated: a call of a wrapper with the signature of any earlier call
\* of it leaves the trace count, the side-effect log and the cache as they
\* were.  (Fails: the earlier call may have raised, and then cached nothing.)
C1_AnyEarlierCall ==
    [][InvokeStep =>
        LET w == last'.w
            sig == Signature(wrappers[w], last'.args)
        IN  sig \in SigsOf(calls[w]) =>
                /\ traceCount' = traceCount
                /\ global_list' = global_list
                /\ cache' = cache]_vars

\* C1, amended: a call of a wrapper with the signature of an earlier call of
\* it that returned a result reuses the artifact that call cached: no trace,
\* no compilation, no execution of the callable's body (no side effect), the
\* cache unchanged, and the result is the cached artifact's.
C1_CacheHit ==
    [][InvokeStep =>
        LET w == last'.w
            sig == Signature(wrappers[w], last'.args)
        IN  sig \in OkSigsOf(calls[w]) =>
                /\ traceCount' = traceCount
                /\ compileCount' = compileCount
                /\ global_list' = global_list
                /\ cache' = cache
                /\ last'.outcome = "ok"
                /\ last'.result = Execute(cache[w][sig], TracedArgs(wrappers[w], last'.args))]_vars

C1_Witness ==
    /\ last.op = "invoke"
    /\ last.outcome = "ok"
    /\ ~last.traced
    /\ traceCount[last.w] = 1
    /\ ncalls >= 2

(* -------------------------------- C2 ---------------------------------- *)
\* C2, as stated: a call whose signature is not in the wrapper's cache does
\* exactly one trace and one compilation and inserts exactly one entry, under
\* that signature; a call whose signature is cached does none.  (Fails: a
\* trace that raises is followed by no compilation and no insertion.)
C2_MissAlwaysInserts ==
    [][InvokeStep =>
        LET w == last'.w
            sig == Signature(wrappers[w], last'.args)
        IN  IF sig \notin DOMAIN cache[w]
            THEN /\ traceCount'[w] = traceCount[w] + 1
                 /\ compileCount'[w] = compileCount[w] + 1
                 /\ DOMAIN cache'[w] = DOMAIN cache[w] \cup {sig}
            ELSE /\ traceCount'[w] = traceCount[w]
                 /\ compileCount'[w] = compileCount[w]
                 /\ cache'[w] = cache[w]]_vars

\* C2, amended: argument tuples that differ in a static argument's value or
\* in a traced argument's shape/dtype have different signatures; a call
\* whose signature is not cached does exactly one trace, and, unless the
\* trace raises, exactly one compilation and inserts exactly one entry, under
\* that signature (when it raises: no compilation and no entry); a call
\* whose signature is cached does neither.
C2_Recompilation ==
    [][InvokeStep =>
        LET w == last'.w
            sig == Signature(wrappers[w], last'.args)
        IN  /\ \A a1, a2 \in ArgsFor(wrappers[w]) :
                  ~SameKey(wrappers[w], a1, a2) =>
                      Signature(wrappers[w], a1) # Signature(wrappers[w], a2)
            /\ IF sig \notin DOMAIN cache[w]
               THEN /\ traceCount'[w] = traceCount[w] + 1
                    /\ IF last'.outcome = "ok"
                       THEN /\ compileCount'[w] = compileCount[w] + 1
                            /\ DOMAIN cache'[w] = DOMAIN cache[w] \cup {sig}
                            /\ Cardinality(DOMAIN cache'[w]) = Cardinality(DOMAIN cache[w]) + 1
                       ELSE /\ compileCount'[w] = compileCount[w]
                            /\ cache'[w] = cache[w]
               ELSE /\ traceCount'[w] = traceCount[w]
                    /\ compileCount'[w] = compileCount[w]
                    /\ cache'[w] = cache[w]]_vars

\* A wrapper with a static argument has recompiled for a second value of it.
C2_Witness ==
    /\ last.op = "invoke"
    /\ last.outcome = "ok"
    /\ last.traced
    /\ wrappers[last.w].static_argnums # {}
    /\ compileCount[last.w] = 2
    /\ Cardinality(DOMAIN cache[last.w]) = 2

(* -------------------------------- C3 ---------------------------------- *)
\* C3, as stated: a call right after a call of the same wrapper, with other
\* values of the traced arguments but the same shapes/dtypes and static
\* values, does not trace or compile.  (Fails: when the first call raised,
\* the second traces again.)
C3_ValueChangeNeverTraces ==
    [][InvokeStep =>
        LET w == last'.w
        IN  (/\ last.op = "invoke"
             /\ last.w = w
             /\ last.args # last'.args
             /\ SameKey(wrappers[w], last.args, last'.args)) =>
                /\ traceCount' = traceCount
                /\ compileCount' = compileCount]_vars

\* C3, amended: the signature does not depend on the traced arguments'
\* values; a call right after a call of the same wrapper that returned a
\* result, with other values of the traced arguments but the same
\* shapes/dtypes and static values, does not trace or compile; and the calls
\* loop_body(0), ..., loop_body(n-1) of g_inner_jitted trace at most once.
C3_ValueIndependence ==
    [][/\ InvokeStep =>
            LET w == last'.w
            IN  /\ \A a1, a2 \in ArgsFor(wrappers[w]) :
                      SameKey(wrappers[w], a1, a2) =>
                          Signature(wrappers[w], a1) = Signature(wrappers[w], a2)
                /\ (/\ last.op = "invoke"
                    /\ last.w = w
                    /\ last.outcome = "ok"
                    /\ last.args # last'.args
                    /\ SameKey(wrappers[w], last.args, last'.args)) =>
                       /\ traceCount' = traceCount
                       /\ compileCount' = compileCount
                       /\ cache' = cache
       /\ last'.op = "g_inner_jitted" /\ ncalls' = ncalls + 1 =>
            Total(traceCount') <= Total(traceCount) + 1]_vars

\* loop_body(0) and loop_body(1), called by g_inner_jitted(10, 2) on a
\* wrapper that had traced nothing, were traced once.
C3_Witness ==
    /\ last.op = "g_inner_jitted"
    /\ last.args = <<PyInt(10), PyInt(2)>>
    /\ last.traced
    /\ traceCount[LoopBodyWrapper] = 1
    /\ last.result = PyInt(12)

(* -------------------------------- C4 ---------------------------------- *)
\* The callables that append to global_list, and how often per execution.
AppendsPerRun(fun) == IF fun = "log2" THEN 1 ELSE 0

BranchesOn(fun) ==
    CASE fun = "f" -> {1}
      [] fun = "g" -> {2}
      [] OTHER -> {}

\* C5: a call of a wrapper whose callable branches on the value of a traced
\* argument raises at trace time; with every argument it branches on static,
\* the call returns what the callable returns without jit; f with x traced
\* raises on 10, f with x static returns 10 on 10.
C5_BranchOnTraced ==
    last.op = "invoke" =>
        LET wrapped == wrappers[last.w]
        IN  /\ (\E p \in BranchesOn(wrapped.fun) : ~IsStatic(wrapped, p)) =>
                  /\ last.outcome = "ConcretizationTypeError"
                  /\ last.traced
            /\ (\A p \in BranchesOn(wrapped.fun) : IsStatic(wrapped, p)) =>
                  /\ last.outcome = "ok"
                  /\ last.result = Unwrapped(wrapped.fun, last.args)
            /\ (wrapped = [fun |-> "f", static_argnums |-> {0}] /\ last.args = <<PyInt(10)>>) =>
                  last.result = PyInt(10)

\* f_jit(10) has raised.
C5_Witness ==
    /\ last.op = "invoke"
    /\ wrappers[last.w] = [fun |-> "f", static_argnums |-> {}]
    /\ last.args = <<PyInt(10)>>
    /\ last.outcome = "ConcretizationTypeError"

(* -------------------------------- C6 ---------------------------------- *)
\* C6: a call that raises leaves every wrapper's cache as it was, and
\* compiles nothing.
C6_ErrorLeavesCache ==
    [][(InvokeStep /\ last'.outcome = "ConcretizationTypeError") =>
          /\ cache' = cache
          /\ compileCount' = compileCount]_vars

\* A call has raised while another wrapper holds a cached artifact.
C6_Witness ==
    /\ last.op = "invoke"
    /\ last.outcome = "ConcretizationTypeError"
    /\ DOMAIN cache[last.w] = {}
    /\ \E v \in 1..Len(wrappers) : DOMAIN cache[v] # {}

C10_StaticScenario ==
    [][InvokeStep =>
        LET w == last'.w
        IN  wrappers[w] = [fun |-> "f", static_argnums |-> {0}] =>
              /\ last'.outcome = "ok"
              /\ last'.args = <<PyInt(10)>> => last'.result = PyInt(10)
              /\ last'.args = <<PyInt(-5)>> => last'.result = PyInt(-10)
              /\ traceCount'[w] =
                    traceCount[w] + (IF \E c \in calls[w] : c.sig[1].v = last'.args[1] THEN 0 ELSE 1)
              /\ traceCount'[w] = Cardinality({c.sig[1].v : c \in calls'[w]})]_vars

\* After three calls, with 10 and with -5 and last with 10 again, there were two traces.
C10_Witness ==
    /\ ncalls = 3
    /\ last.op = "invoke"
    /\ wrappers[last.w] = [fun |-> "f", static_argnums |-> {0}]
    /\ last.args = <<PyInt(10)>>
    /\ last.result = PyInt(10)
    /\ ~last.traced
    /\ {c.sig[1].v : c \in calls[last.w]} = {PyInt(10), PyInt(-5)}
    /\ Cardinality(calls[LoopBodyWrapper]) = 0
    /\ traceCount[last.w] = 2

(* -------------------------------- C11 --------------------------------- *)
\* C11, as stated: every call of g wrapped with n static returns x + n.
\* (Fails: the loop is `while i < n`, so for a negative n it runs no
\* iteration and the call returns x.)
C11_ReturnsXPlusN ==
    (last.op = "invoke" /\ wrappers[last.w] = [fun |-> "g", static_argnums |-> {1}]) =>
        /\ last.outcome = "ok"
        /\ last.result = PyInt(last.args[1].data[1] + last.args[2].data[1])

\* C11, amended: every call of g wrapped with n static returns a result, the
\* one g returns without jit: x + n when n >= 0, x when n < 0; the call with
\* (10, 20) returns 30.
C11_StaticLoop ==
    (last.op = "invoke" /\ wrappers[last.w] = [fun |-> "g", static_argnums |-> {1}]) =>
        LET x == last.args[1].data[1]
            n == last.args[2].data[1]
        IN  /\ last.outcome = "ok"
            /\ last.result = Unwrapped("g", last.args)
            /\ last.result = PyInt(x + (IF n >= 0 THEN n ELSE 0))
            /\ last.args = <<PyInt(10), PyInt(20)>> => last.result = PyInt(30)

\* g_jit_correct(10, 20) has traced and returned 30.
C11_Witness ==
    /\ last.op = "invoke"
    /\ wrappers[last.w] = [fun |-> "g", static_argnums |-> {1}]
    /\ last.args = <<PyInt(10), PyInt(20)>>
    /\ last.traced
    /\ last.outcome = "ok"
    /\ last.result = PyInt(30)

(* -------------------------------- C12 --------------------------------- *)
\* C12: in every step, every wrapper keeps every entry of its cache, bound
\* to the same artifact; a wrapper's cache changes only in a call of that
\* wrapper that missed and returned a result, and then by the one entry of
\* the call's signature (g_inner_jitted calls the wrapper of loop_body); a
\* wrapper made by jax.jit starts with an empty cache, which within
\* g_inner_jitted_poorly its one call then fills with one entry.
C12_CacheOnlyGrows ==
    [][/\ Len(cache') >= Len(cache)
       /\ \A w \in 1..Len(cache) :
             /\ DOMAIN cache[w] \subseteq DOMAIN cache'[w]
             /\ \A s \in DOMAIN cache[w] : cache'[w][s] = cache[w][s]
             /\ cache'[w] # cache[w] =>
                   /\ ncalls' = ncalls + 1
                   /\ last'.op \in {"invoke", "g_inner_jitted"}
                   /\ last'.w = w
                   /\ last'.outcome = "ok"
                   /\ last'.traced
                   /\ traceCount'[w] = traceCount[w] + 1
                   /\ compileCount'[w] = compileCount[w] + 1
                   /\ Cardinality(DOMAIN cache'[w]) = Cardinality(DOMAIN cache[w]) + 1
                   /\ last'.op = "invoke" =>
                         LET sig == Signature(wrappers[w], last'.args)
                         IN  /\ sig \notin DOMAIN cache[w]
                             /\ DOMAIN cache'[w] = DOMAIN cache[w] \cup {sig}
       /\ \A v \in (Len(cache) + 1)..Len(cache') :
             IF last'.op = "wrap" THEN cache'[v] = <<>>
             ELSE /\ last'.op = "g_inner_jitted_poorly"
                  /\ Cardinality(DOMAIN cache'[v]) = 1
                  /\ compileCount'[v] = 1]_vars

\* A cache that grew to two entries has been left as it was by a call of
\* another wrapper that raised.
C12_Witness ==
    /\ last.op = "invoke"
    /\ last.outcome = "ConcretizationTypeError"
    /\ \E v \in 1..Len(wrappers) :
          /\ v # last.w
          /\ Cardinality(DOMAIN cache[v]) = 2
          /\ compileCount[v] = 2

(* -------------------------------- C13 --------------------------------- *)
\* C13: a call of a wrapper with a signature that an earlier call of it
\* raised on runs the callable in trace mode again (one more trace, with
\* the side effects that trace performs appended to global_list), raises
\* again, compiles and caches nothing; and no call with that signature, before
\* or after, returns a result.
C13_NoNegativeCaching ==
    [][InvokeStep =>
        LET w == last'.w
            wrapped == wrappers[w]
            sig == Signature(wrapped, last'.args)
            t == Call(wrapped.fun, TraceValues(wrapped, last'.args),
                      Len(TracedArgs(wrapped, last'.args)))
        IN  [sig |-> sig, outcome |-> "ConcretizationTypeError"] \in calls[w] =>
                /\ last'.traced
                /\ traceCount'[w] = traceCount[w] + 1
                /\ global_list' = global_list \o Logged(w, t.effects)
                /\ last'.outcome = "ConcretizationTypeError"
                /\ last'.result = NoValue
                /\ compileCount' = compileCount
                /\ cache' = cache
                /\ sig \notin DOMAIN cache'[w]
                /\ [sig |-> sig, outcome |-> "ok"] \notin calls'[w]]_vars

\* The same call has raised for the third time, traced each time.
C13_Witness ==
    /\ last.op = "invoke"
    /\ last.outcome = "ConcretizationTypeError"
    /\ last.traced
    /\ ncalls = 3
    /\ traceCount[last.w] = 3
    /\ calls[last.w] = {[sig |-> Signature(wrappers[last.w], last.args),
                         outcome |-> "ConcretizationTypeError"]}

====
